---- MODULE Spec2Model ----
(***************************************************************************)
(* State-machine model of the prompt-counting scripts of agent-skills:     *)
(*   skills/project-time-tracker/scripts/claude_messages.py                *)
(*   skills/project-time-tracker/scripts/codex_messages.py                 *)
(*   skills/time-lens/scripts/cursor_messages.py                           *)
(* and of skills/project-time-tracker/scripts/git_sessions.py.             *)
(* A behaviour is one invocation of one script.  Command-line arguments    *)
(* and the directory layout of the stores are fixed in Init; the lines of  *)
(* a log file are drawn when the script reads them (every line is read at  *)
(* most once per run, except the first session_meta of a Codex rollout,    *)
(* which is remembered for the second pass of find_alternate_paths).       *)
(*                                                                         *)
(* Strings are sequences of one-character strings, so that path encoding,  *)
(* basename, normpath, lower() and substring tests are computed.           *)
(* Timestamps are integers in milliseconds; a date "YYYY-MM-DD" is the     *)
(* number of the day since the epoch, which orders as the string does.     *)
(***************************************************************************)
EXTENDS Integers, Sequences, FiniteSets, TLC

\* ------------------------------------------------------------------ bounds

\* History lines read in one run (main pass or alternate-path pass).
MaxHist == 2
\* Session-file lines read in one run, over all files.
MaxSess == 2
\* Timestamps are DayMs - 600 + 100 * k for k in 0..MaxTick.
MaxTick == 2
\* Rollout files in the Codex sessions directory.
MaxCodexFiles == 2
\* Rollout lines read in one run, over all files.
MaxCodexLines == 4
\* Lines of the git log output.
MaxCommits == 4
\* Workspaces under Cursor's workspaceStorage.
MaxWs == 1
\* composerData rows, bubbles, allComposers entries and legacy messages read
\* in one run, over all sessions and workspaces.
MaxCursorItems == 3

\* --------------------------------------------------------------- strings

\* Python's None, comparable with every string of the model.
None == <<"None">>

\* The characters of the model's strings in code-point order.
Alphabet == <<"-", ".", "/", "B", "a", "b", "c", "x">>

\* str.lower() on one character
LowerChar(ch) == IF ch = "B" THEN "b" ELSE ch

\* str.lower()
Lower(s) == [i \in 1..Len(s) |-> LowerChar(s[i])]

\* `a in b` for strings
Contains(b, a) ==
    \E i \in 0..(Len(b) - Len(a)) : SubSeq(b, i + 1, i + Len(a)) = a

CharIndex(ch) == CHOOSE i \in 1..Len(Alphabet) : Alphabet[i] = ch

\* s < t for strings (lexicographic on code points)
StrLess(s, t) ==
    \E k \in 0..Len(s) :
        /\ k <= Len(t)
        /\ SubSeq(s, 1, k) = SubSeq(t, 1, k)
        /\ \/ k = Len(s) /\ k < Len(t)
           \/ k < Len(s) /\ k < Len(t) /\ CharIndex(s[k + 1]) < CharIndex(t[k + 1])

\* sorted(S) for a set of strings
RECURSIVE SortStrings(_)
SortStrings(S) ==
    IF S = {} THEN <<>>
    ELSE LET m == CHOOSE x \in S : \A y \in S \ {x} : StrLess(x, y)
         IN  <<m>> \o SortStrings(S \ {m})

\* The elements of a set of integers, largest first.
RECURSIVE LargestFirst(_)
LargestFirst(S) ==
    IF S = {} THEN <<>>
    ELSE LET m == CHOOSE x \in S : \A y \in S : x >= y
         IN  <<m>> \o LargestFirst(S \ {m})

\* sorted(S) for a set of integers
RECURSIVE SortInts(_)
SortInts(S) ==
    IF S = {} THEN <<>>
    ELSE LET m == CHOOSE x \in S : \A y \in S : x <= y
         IN  <<m>> \o SortInts(S \ {m})

\* str.split("/")
RECURSIVE SplitSlash(_)
SplitSlash(s) ==
    IF \A i \in 1..Len(s) : s[i] # "/" THEN <<s>>
    ELSE LET k == CHOOSE i \in 1..Len(s) :
                      s[i] = "/" /\ \A j \in 1..(i - 1) : s[j] # "/"
         IN  <<SubSeq(s, 1, k - 1)>> \o SplitSlash(SubSeq(s, k + 1, Len(s)))

\* "/".join(comps)
RECURSIVE JoinSlash(_)
JoinSlash(comps) ==
    IF comps = <<>> THEN <<>>
    ELSE IF Len(comps) = 1 THEN comps[1]
    ELSE comps[1] \o <<"/">> \o JoinSlash(Tail(comps))

\* os.path.basename: what follows the last "/"
Basename(p) == LET parts == SplitSlash(p) IN parts[Len(parts)]

\* the component loop of posixpath.normpath
RECURSIVE NormComps(_, _, _)
NormComps(comps, acc, rooted) ==
    IF comps = <<>> THEN acc
    ELSE LET c == Head(comps)
             rest == Tail(comps)
         IN  IF c = <<>> \/ c = <<".">> THEN NormComps(rest, acc, rooted)
             ELSE IF \/ c # <<".", ".">>
                     \/ (~rooted /\ acc = <<>>)
                     \/ (acc # <<>> /\ acc[Len(acc)] = <<".", ".">>)
                  THEN NormComps(rest, Append(acc, c), rooted)
             ELSE IF acc # <<>>
                  THEN NormComps(rest, SubSeq(acc, 1, Len(acc) - 1), rooted)
             ELSE NormComps(rest, acc, rooted)

\* os.path.normpath (POSIX)
NormPath(p) ==
    IF p = <<>> THEN <<".">>
    ELSE LET rooted == p[1] = "/"
             two == /\ Len(p) >= 2 /\ p[1] = "/" /\ p[2] = "/"
                    /\ ~(Len(p) >= 3 /\ p[3] = "/")
             body == JoinSlash(NormComps(SplitSlash(p), <<>>, rooted))
             out == (IF two THEN <<"/", "/">> ELSE IF rooted THEN <<"/">> ELSE <<>>)
                    \o body
         IN  IF out = <<>> THEN <<".">> ELSE out

\* path_to_encoded: abs_path.replace("/", "-")
path_to_encoded(abs_path) ==
    [i \in 1..Len(abs_path) |-> IF abs_path[i] = "/" THEN "-" ELSE abs_path[i]]

\* paths_match of cursor_messages.py
paths_match(path1, path2) == NormPath(path1) = NormPath(path2)

\* ------------------------------------------------------------- universe

PAB == <<"/", "a", "/", "b">>
PABslash == <<"/", "a", "/", "b", "/">>
PAdotB == <<"/", "a", "/", ".", "/", "b">>
PBC == <<"/", "b", "/", "c">>
PXB == <<"/", "x", "/", "b">>
\* A path that path_to_encoded maps to the directory name of PAB.
PAdashB == <<"/", "a", "-", "b">>

\* Project identifiers found in the stores.
StoredPaths == {PAB, PBC, PXB}
\* Values of --project-path (None: not given).
PathArgs == {None, PAB, PABslash, PAdotB}
\* Values of --filter (None: not given).
FilterArgs == {None, <<"B">>}

\* ----------------------------------------------------------- timestamps

DayMs == 86400 * 1000

\* Epoch values in milliseconds, on both sides of a rounding boundary.
TsValues == {DayMs - 600 + 100 * k : k \in 0..MaxTick}

\* UTC offsets an ISO-8601 string may carry, in milliseconds.
Offsets == {0, 3600 * 1000}

\* round(ms / 1000.0): Python rounds a half to the even integer.
RoundSec(ms) ==
    LET q == ms \div 1000
        r == ms % 1000
    IN  IF r < 500 THEN q
        ELSE IF r > 500 THEN q + 1
        ELSE IF q % 2 = 0 THEN q ELSE q + 1

\* datetime.fromtimestamp(ts, tz=timezone.utc).strftime("%Y-%m-%d")
UtcDate(ms) == ms \div DayMs

\* dt.strftime("%Y-%m-%d") of an aware datetime: the date on the clock of
\* the offset the string carried.
IsoDate(ms, off) == (ms + off) \div DayMs

\* ------------------------------------------------------- daily histograms

\* defaultdict(int)
EmptyDaily == [x \in {} |-> 0]

\* A histogram that only marks the date as present.
MarkDate(daily, date) ==
    [x \in (DOMAIN daily) \cup {date} |->
        IF x = date THEN 1 ELSE daily[x]]

\* daily[date] += 1
Incr(daily, date) ==
    [x \in (DOMAIN daily) \cup {date} |->
        IF x = date THEN (IF date \in DOMAIN daily THEN daily[date] + 1 ELSE 1)
        ELSE daily[x]]

\* daily.get(date, 0)
Get(daily, date) == IF date \in DOMAIN daily THEN daily[date] ELSE 0

RECURSIVE SumOver(_, _)
SumOver(daily, keys) ==
    IF keys = {} THEN 0
    ELSE LET k == CHOOSE x \in keys : TRUE
         IN  daily[k] + SumOver(daily, keys \ {k})

\* sum(daily.values())
SumValues(daily) == SumOver(daily, DOMAIN daily)

\* ------------------------------------------------------------ log lines

\* One line of a log file.  k: "blank", "notjson" (not JSON), "nonobject"
\* (JSON, but not an object) or "object".  For an object: id is the project
\* identifier ("project", "cwd" or payload.cwd; None when the key is absent),
\* tsk says whether "timestamp" is a number / an ISO string ("num"), absent
\* ("missing") or of another shape ("bad"), ts and off its value, type the
\* "type" field and content the shape of message.content.
Line(k, id, tsk, ts, off, type, content) ==
    [k |-> k, id |-> id, tsk |-> tsk, ts |-> ts, off |-> off,
     type |-> type, content |-> content]

NoLine == Line("none", None, "missing", 0, 0, "-", "-")
Blank == Line("blank", None, "missing", 0, 0, "-", "-")
NotJson == Line("notjson", None, "missing", 0, 0, "-", "-")
NonObject == Line("nonobject", None, "missing", 0, 0, "-", "-")

Ts0 == DayMs - 600

\* Lines of ~/.claude/history.jsonl
HistLines ==
    {Blank, NotJson, NonObject}
    \cup {Line("object", p, "num", t, 0, "-", "-") : p \in StoredPaths, t \in TsValues}
    \cup {Line("object", PAB, "missing", 0, 0, "-", "-"),
          Line("object", PAB, "bad", 0, 0, "-", "-"),
          Line("object", None, "num", Ts0, 0, "-", "-")}

\* Shapes of message.content in a session entry: a string, no "message" key
\* (content defaults to ""), a list starting with a text element, a list
\* starting with a tool_result element, the empty list, a list whose first
\* element is not an object, a value that is neither string nor list, and
\* a "message" that is not an object.
Contents ==
    {"str", "missing", "list_text", "list_tool", "list_empty", "list_bad",
     "other", "msg_bad"}

\* Lines of ~/.claude/projects/<encoded>/*.jsonl
SessLines ==
    {Blank, NotJson, NonObject}
    \cup {Line("object", p, "num", t, 0, "user", "str") :
             p \in StoredPaths, t \in TsValues}
    \cup {Line("object", PAB, "num", t, o, "user", "str") :
             t \in TsValues, o \in Offsets}
    \cup {Line("object", PAB, "num", Ts0, 0, "user", c) : c \in Contents}
    \cup {Line("object", PAB, "num", Ts0, 0, "assistant", "str"),
          Line("object", PAB, "bad", 0, 0, "user", "str"),
          Line("object", None, "num", Ts0, 0, "user", "str"),
          Line("object", PAdashB, "num", Ts0, 0, "user", "str")}

\* ------------------------------------------------------------- variables

VARIABLES
    script,          \* which script this run is: "claude", "codex", "cursor",
                     \* "git"
    pc,              \* position of the run
    project_path,    \* args.project_path
    name_filter,     \* args.filter
    store_ok,        \* the store's root directory exists (projects_dir, sessions_dir)
    history_ok,      \* ~/.claude/history.jsonl exists
    dir_names,       \* names of the directories under projects_dir
    project_dirs,    \* find_project_dirs' result
    daily_history,   \* collect_from_history's daily
    daily_sessions,  \* collect_from_session_files' daily
    seen_ts,         \* the rounded timestamps counted so far
    alternates,      \* the alternate-path set being collected
    nhist,           \* history lines read
    nsess,           \* session-file lines read
    dir_idx,         \* index in project_dirs of the directory being scanned
    file_open,       \* a session file is open
    todo_dirs,       \* directories the alternate-path scan has not visited
    hist_ts,         \* the timestamps (ms) of the history lines counted
    searched,        \* the alternate-path search ran
    cwd,             \* scan_sessions: the cwd of the rollout file being read
    session_prompts, \* scan_sessions: the prompts of that file, <<date, ts>>
    daily,           \* scan_sessions: daily
    timestamps,      \* scan_sessions: timestamps
    sessions_found,  \* scan_sessions: sessions_found
    first_lines,     \* the first session_meta of every rollout file opened
    nlines,          \* rollout lines read
    last,            \* the line read last from the open file, and what
                     \* became of it
    out,             \* what the run printed
    exit_status,     \* -1 while running, then the process's exit status
    git_ok,          \* get_commits: git log returned 0
    commits,         \* get_commits: commits; then main's sorted commits
    nlog,            \* lines of the git log output read
    sessions,        \* detect_sessions: sessions
    current,         \* detect_sessions: current
    ci,              \* detect_sessions: index in commits of the loop's commit
    session_data,    \* main: session_data
    daily_hours,     \* main: daily_hours
    total_hours,     \* main: total_hours
    ws_mappings,     \* scan_workspace_mappings' result, in its order
    composer_paths,  \* the workspaceUri paths of the composerData rows read
    nrows,           \* composerData rows read
    matching_session_ids, \* collect_from_global_storage: sessions to read
    session_ts,      \* collect_from_global_storage: session_ts
    daily_global,    \* main: daily_global
    ts_global,       \* main: ts_global
    sessions_global, \* main: sessions_global
    daily_ws,        \* main: daily_ws
    ts_ws,           \* main: ts_ws
    sessions_ws,     \* main: sessions_ws
    ws_idx,          \* index in ws_mappings of the workspace being read
    nitems,          \* bubbles, allComposers entries, legacy messages read
    has_msgs         \* collect_from_workspace_storage: has_msgs

vars ==
    <<script, pc, project_path, name_filter, store_ok, history_ok, dir_names,
      project_dirs, daily_history, daily_sessions, seen_ts, alternates, nhist,
      nsess, dir_idx, file_open, todo_dirs, hist_ts, searched, cwd,
      session_prompts, daily, timestamps, sessions_found, first_lines, nlines,
      last, out, exit_status, git_ok, commits, nlog, sessions, current, ci,
      session_data, daily_hours, total_hours, ws_mappings, composer_paths,
      nrows, matching_session_ids, session_ts, daily_global, ts_global,
      sessions_global, daily_ws, ts_ws, sessions_ws, ws_idx, nitems, has_msgs>>

\* The state of cursor_messages.py past its arguments.
cursorVars ==
    <<composer_paths, nrows, matching_session_ids, session_ts,
      daily_global, ts_global, sessions_global, daily_ws, ts_ws, sessions_ws,
      ws_idx, nitems, has_msgs>>

\* The state of git_sessions.py.
gitVars ==
    <<git_ok, commits, nlog, sessions, current, ci, session_data, daily_hours,
      total_hours>>

\* What is fixed when the run starts.
argVars ==
    <<script, project_path, name_filter, store_ok, history_ok, dir_names,
      ws_mappings>>

\* The state of claude_messages.py past its arguments.
claudeVars ==
    <<project_dirs, daily_history, daily_sessions, seen_ts, alternates, nhist,
      nsess, dir_idx, file_open, todo_dirs, hist_ts>>

\* The state of codex_messages.py past its arguments.
codexVars ==
    <<cwd, session_prompts, daily, timestamps, sessions_found, first_lines,
      nlines>>

\* bool(s) for an optional string
Truthy(s) == s # None /\ s # <<>>

\* ----------------------------------------------------------------- output

NoOutput ==
    [kind |-> "none", total |-> 0, daily |-> EmptyDaily, history |-> 0,
     session_files |-> 0, timestamps |-> <<>>, has_alt |-> FALSE,
     alternate_paths |-> <<>>, sessions_found |-> 0, error |-> "none",
     stderr |-> FALSE]

\* print(json.dumps({"error": "Provide --project-path or --filter"}))
ErrorOutput == [NoOutput EXCEPT !.kind = "error"]

\* A report; alts is the alternate-path set, attached when it is not empty.
Report(counts, n_history, n_sessions, stamps, alts) ==
    [kind |-> "report", total |-> SumValues(counts), daily |-> counts,
     history |-> n_history, session_files |-> n_sessions,
     timestamps |-> stamps, has_alt |-> alts # {},
     alternate_paths |-> SortStrings(alts), sessions_found |-> 0,
     error |-> "none", stderr |-> FALSE]

NoLast == [src |-> "none", line |-> NoLine, res |-> "none"]

\* ------------------------------------------------------ claude_messages.py

\* find_project_dirs
find_project_dirs(dir_ok, names, path, filter) ==
    IF ~dir_ok THEN <<>>
    ELSE IF Truthy(path)
         THEN IF path_to_encoded(path) \in names
              THEN <<path_to_encoded(path)>> ELSE <<>>
    ELSE SortStrings({n \in names :
                         Truthy(filter) /\ Contains(Lower(n), Lower(filter))})

\* is_real_prompt: "real", "not", or "raise" for an AttributeError
is_real_prompt(content) ==
    CASE content \in {"str", "missing"} -> "real"
      [] content = "list_text" -> "real"
      [] content = "list_tool" -> "not"
      [] content = "list_bad" -> "raise"
      [] content = "msg_bad" -> "raise"
      [] OTHER -> "not"

\* The body of collect_from_history's loop for one line: "skip" (continue),
\* "count", or "raise" (an exception nothing catches).
HistoryStep(line, path) ==
    CASE line.k \in {"blank", "notjson"} -> "skip"
      [] line.k = "nonobject" -> "raise"
      [] OTHER ->
            IF line.id # path THEN "skip"
            ELSE IF line.tsk = "missing" THEN "skip"
            ELSE IF line.tsk = "bad" THEN "raise"
            ELSE "count"

\* A loop body for a session-file line that never looks at the record's cwd.
SessionStepAnyCwd(line, path, seen) ==
    CASE line.k \in {"blank", "notjson"} -> "skip"
      [] line.k = "nonobject" -> "raise"
      [] OTHER ->
            IF line.type # "user" THEN "skip"
            ELSE IF line.content \in {"list_bad", "msg_bad"} THEN "raise"
            ELSE IF line.content \notin {"str", "missing", "list_text"}
                 THEN "skip"
            ELSE IF line.tsk # "num" THEN "skip"
            ELSE IF RoundSec(line.ts) \in seen THEN "dup"
            ELSE "count"

\* A loop body for a session-file line that never consults the seen set.
SessionStepWithoutSeen(line, path, seen) ==
    CASE line.k \in {"blank", "notjson"} -> "skip"
      [] line.k = "nonobject" -> "raise"
      [] OTHER ->
            IF line.type # "user" THEN "skip"
            ELSE IF Truthy(path) /\ line.id # path THEN "skip"
            ELSE IF line.content \in {"list_bad", "msg_bad"} THEN "raise"
            ELSE IF line.content \notin {"str", "missing", "list_text"}
                 THEN "skip"
            ELSE IF line.tsk # "num" THEN "skip"
            ELSE "count"

\* The body of collect_from_session_files' loop for one line: "skip",
\* "dup" (rounded timestamp already seen), "count", or "raise".
SessionStep(line, path, seen) ==
    CASE line.k \in {"blank", "notjson"} -> "skip"
      [] line.k = "nonobject" -> "raise"
      [] OTHER ->
            IF line.type # "user" THEN "skip"
            ELSE IF Truthy(path) /\ line.id # path THEN "skip"
            ELSE IF is_real_prompt(line.content) = "raise" THEN "raise"
            ELSE IF is_real_prompt(line.content) = "not" THEN "skip"
            ELSE IF line.tsk # "num" THEN "skip"
            ELSE IF RoundSec(line.ts) \in seen THEN "dup"
            ELSE "count"

\* An uncaught exception e: a traceback on stderr, nothing on stdout, exit
\* status 1.
Crash(e) ==
    /\ pc' = "crashed"
    /\ exit_status' = 1
    /\ out' = [NoOutput EXCEPT !.kind = "traceback", !.error = e,
                                !.stderr = TRUE]

\* main, up to the call of collect_from_history or the alternate-path scan
ClaudeMain ==
    /\ script = "claude"
    /\ pc = "start"
    /\ UNCHANGED <<argVars, gitVars, cursorVars, codexVars, daily_history, daily_sessions, seen_ts,
                   alternates, nhist, nsess, dir_idx, file_open, hist_ts, last>>
    /\ searched' = (/\ Truthy(project_path)
                    /\ find_project_dirs(store_ok, dir_names, project_path,
                                         name_filter) = <<>>)
    /\ IF ~Truthy(project_path) /\ ~Truthy(name_filter)
       THEN /\ out' = ErrorOutput
            /\ exit_status' = 0
            /\ pc' = "done"
            /\ UNCHANGED <<project_dirs, todo_dirs>>
       ELSE LET dirs == find_project_dirs(store_ok, dir_names, project_path,
                                          name_filter)
            IN  /\ project_dirs' = dirs
                /\ IF dirs = <<>>
                   THEN IF ~Truthy(project_path)
                        THEN /\ out' = Report(EmptyDaily, 0, 0, <<>>, {})
                             /\ exit_status' = 0
                             /\ pc' = "done"
                             /\ UNCHANGED todo_dirs
                        ELSE IF history_ok
                        THEN /\ pc' = "alt_history"
                             /\ UNCHANGED <<out, exit_status, todo_dirs>>
                        ELSE IF store_ok
                        THEN /\ pc' = "alt_dirs"
                             /\ todo_dirs' = dir_names
                             /\ UNCHANGED <<out, exit_status>>
                        ELSE Crash("FileNotFoundError") /\ UNCHANGED todo_dirs
                   ELSE /\ pc' = IF history_ok /\ Truthy(project_path)
                                 THEN "history" ELSE "sessions"
                        /\ UNCHANGED <<out, exit_status, todo_dirs>>

\* collect_from_history: one line of history.jsonl
ClaudeHistoryLine ==
    /\ script = "claude"
    /\ pc = "history"
    /\ nhist < MaxHist
    /\ \E line \in HistLines :
          LET res == HistoryStep(line, project_path)
          IN  /\ last' = [src |-> "history", line |-> line, res |-> res]
              /\ nhist' = nhist + 1
              /\ IF res = "raise"
                 THEN Crash(IF line.k = "nonobject" THEN "AttributeError"
                            ELSE "TypeError")
                      /\ UNCHANGED <<daily_history, seen_ts, hist_ts>>
                 ELSE /\ UNCHANGED <<pc, out, exit_status>>
                      /\ IF res = "count"
                         THEN /\ seen_ts' = seen_ts \cup {RoundSec(line.ts)}
                              /\ daily_history' =
                                     Incr(daily_history, UtcDate(line.ts))
                              /\ hist_ts' = hist_ts \cup {line.ts}
                         ELSE UNCHANGED <<daily_history, seen_ts, hist_ts>>
    /\ UNCHANGED <<argVars, gitVars, cursorVars, codexVars, searched,
                   project_dirs, daily_sessions, alternates, nsess,
                   dir_idx, file_open, todo_dirs>>

\* collect_from_history: end of history.jsonl
ClaudeHistoryEnd ==
    /\ script = "claude"
    /\ pc = "history"
    /\ pc' = "sessions"
    /\ UNCHANGED <<argVars, gitVars, cursorVars, codexVars, searched, claudeVars, last, out, exit_status>>

\* collect_from_session_files: open the next *.jsonl of the directory; an
\* IOError or PermissionError is swallowed and the file skipped
ClaudeOpenFile ==
    /\ script = "claude"
    /\ pc = "sessions"
    /\ ~file_open
    /\ dir_idx <= Len(project_dirs)
    /\ \E readable \in BOOLEAN : file_open' = readable
    /\ UNCHANGED <<argVars, gitVars, cursorVars, codexVars, searched, hist_ts,
                   project_dirs, daily_history, daily_sessions, seen_ts,
                   alternates, nhist, nsess, dir_idx, todo_dirs, last, pc, out,
                   exit_status>>

\* collect_from_session_files: one line of a session file
ClaudeSessionLine ==
    /\ script = "claude"
    /\ pc = "sessions"
    /\ file_open
    /\ nsess < MaxSess
    /\ \E line \in SessLines :
          LET res == SessionStep(line, project_path, seen_ts)
          IN  /\ last' = [src |-> "session", line |-> line, res |-> res]
              /\ nsess' = nsess + 1
              /\ IF res = "raise"
                 THEN Crash("AttributeError")
                      /\ UNCHANGED <<daily_sessions, seen_ts>>
                 ELSE /\ UNCHANGED <<pc, out, exit_status>>
                      /\ IF res = "count"
                         THEN /\ seen_ts' = seen_ts \cup {RoundSec(line.ts)}
                              /\ daily_sessions' =
                                     Incr(daily_sessions,
                                          IsoDate(line.ts, line.off))
                         ELSE UNCHANGED <<daily_sessions, seen_ts>>
    /\ UNCHANGED <<argVars, gitVars, cursorVars, codexVars, searched, hist_ts,
                   project_dirs, daily_history, alternates, nhist,
                   dir_idx, file_open, todo_dirs>>

\* collect_from_session_files: end of a session file
ClaudeCloseFile ==
    /\ script = "claude"
    /\ pc = "sessions"
    /\ file_open
    /\ file_open' = FALSE
    /\ UNCHANGED <<argVars, gitVars, cursorVars, codexVars, searched, hist_ts,
                   project_dirs, daily_history, daily_sessions, seen_ts,
                   alternates, nhist, nsess, dir_idx, todo_dirs, last, pc, out,
                   exit_status>>

\* collect_from_session_files: no more files in the directory
ClaudeNextDir ==
    /\ script = "claude"
    /\ pc = "sessions"
    /\ ~file_open
    /\ dir_idx <= Len(project_dirs)
    /\ dir_idx' = dir_idx + 1
    /\ UNCHANGED <<argVars, gitVars, cursorVars, codexVars, searched, hist_ts,
                   project_dirs, daily_history, daily_sessions, seen_ts,
                   alternates, nhist, nsess, file_open, todo_dirs, last, pc, out,
                   exit_status>>

\* A merge that keeps the larger of the two counts of a date.
MergedByMax(dh, ds) ==
    [d \in (DOMAIN dh) \cup (DOMAIN ds) |->
        IF Get(dh, d) >= Get(ds, d) THEN Get(dh, d) ELSE Get(ds, d)]

\* daily_merged of main
Merged(dh, ds) ==
    [d \in (DOMAIN dh) \cup (DOMAIN ds) |-> Get(dh, d) + Get(ds, d)]

\* main: merge and print the report
ClaudeReport ==
    /\ script = "claude"
    /\ pc = "sessions"
    /\ dir_idx > Len(project_dirs)
    /\ out' = [Report(Merged(daily_history, daily_sessions),
                      SumValues(daily_history), SumValues(daily_sessions),
                      SortInts(seen_ts), {}) EXCEPT !.has_alt = FALSE]
    /\ exit_status' = 0
    /\ pc' = "done"
    /\ UNCHANGED <<argVars, gitVars, cursorVars, codexVars, searched, claudeVars, last>>

\* The folder-move test of main on one stored identifier ("" when absent).
IsAlternate(id, path) ==
    /\ Truthy(id)
    /\ id # path
    /\ Basename(id) = Basename(path)

\* main, no project directory: one line of history.jsonl
ClaudeAltHistoryLine ==
    /\ script = "claude"
    /\ pc = "alt_history"
    /\ nhist < MaxHist
    /\ \E line \in HistLines :
          /\ nhist' = nhist + 1
          /\ IF line.k = "nonobject"
             THEN /\ Crash("AttributeError")
                  /\ last' = [src |-> "alt_history", line |-> line, res |-> "raise"]
                  /\ UNCHANGED alternates
             ELSE /\ UNCHANGED <<pc, out, exit_status>>
                  /\ IF line.k = "object" /\ IsAlternate(line.id, project_path)
                     THEN /\ alternates' = alternates \cup {line.id}
                          /\ last' = [src |-> "alt_history", line |-> line,
                                      res |-> "count"]
                     ELSE /\ UNCHANGED alternates
                          /\ last' = [src |-> "alt_history", line |-> line,
                                      res |-> "skip"]
    /\ UNCHANGED <<argVars, gitVars, cursorVars, codexVars, searched, hist_ts,
                   project_dirs, daily_history, daily_sessions, seen_ts,
                   nsess, dir_idx, file_open, todo_dirs>>

\* main, no project directory: end of history.jsonl, then os.scandir
ClaudeAltHistoryEnd ==
    /\ script = "claude"
    /\ pc = "alt_history"
    /\ IF store_ok
       THEN /\ pc' = "alt_dirs"
            /\ todo_dirs' = dir_names
            /\ UNCHANGED <<out, exit_status>>
       ELSE Crash("FileNotFoundError") /\ UNCHANGED todo_dirs
    /\ UNCHANGED <<argVars, gitVars, cursorVars, codexVars, searched, hist_ts,
                   project_dirs, daily_history, daily_sessions, seen_ts,
                   alternates, nhist, nsess, dir_idx, file_open, last>>

\* What the first *.jsonl of a directory holds: nothing to read (no file, an
\* unreadable file, an empty file) or a first line.
FirstLines == {NoLine} \cup SessLines

\* main, no project directory: the first line of the first session file of
\* one directory; every exception is swallowed
ClaudeAltDir ==
    /\ script = "claude"
    /\ pc = "alt_dirs"
    /\ \E d \in todo_dirs, line \in FirstLines :
          /\ todo_dirs' = todo_dirs \ {d}
          /\ IF line.k = "object" /\ IsAlternate(line.id, project_path)
             THEN /\ alternates' = alternates \cup {line.id}
                  /\ last' = [src |-> "alt_dir", line |-> line, res |-> "count"]
             ELSE /\ UNCHANGED alternates
                  /\ last' = [src |-> "alt_dir", line |-> line, res |-> "skip"]
    /\ UNCHANGED <<argVars, gitVars, cursorVars, codexVars, searched, hist_ts,
                   project_dirs, daily_history, daily_sessions, seen_ts,
                   nhist, nsess, dir_idx, file_open, pc, out, exit_status>>

\* main, no project directory: print the zero report
ClaudeAltReport ==
    /\ script = "claude"
    /\ pc = "alt_dirs"
    /\ todo_dirs = {}
    /\ out' = Report(EmptyDaily, 0, 0, <<>>, alternates)
    /\ exit_status' = 0
    /\ pc' = "done"
    /\ UNCHANGED <<argVars, gitVars, cursorVars, codexVars, searched, claudeVars, last>>

ClaudeNext ==
    \/ ClaudeMain
    \/ ClaudeHistoryLine
    \/ ClaudeHistoryEnd
    \/ ClaudeOpenFile
    \/ ClaudeSessionLine
    \/ ClaudeCloseFile
    \/ ClaudeNextDir
    \/ ClaudeReport
    \/ ClaudeAltHistoryLine
    \/ ClaudeAltHistoryEnd
    \/ ClaudeAltDir
    \/ ClaudeAltReport

\* ------------------------------------------------------- codex_messages.py

\* Lines of ~/.codex/sessions/**/rollout-*.jsonl.  type is the entry's
\* "type" ("session_meta", "event_msg", or another); content is payload.type
\* of an event_msg ("user_message" or another), or "payload_bad" for a
\* payload that is not an object; id is payload.cwd of a session_meta.
CodexLines ==
    {Blank, NotJson, NonObject}
    \cup {Line("object", p, "missing", 0, 0, "session_meta", "-") :
             p \in StoredPaths \cup {None}}
    \cup {Line("object", None, "num", Ts0, o, "event_msg", "user_message") :
             o \in Offsets}
    \cup {
          Line("object", None, "bad", 0, 0, "event_msg", "user_message"),
          Line("object", None, "num", Ts0, 0, "event_msg", "other"),
          Line("object", None, "num", Ts0, 0, "event_msg", "payload_bad"),
          Line("object", None, "missing", 0, 0, "session_meta", "payload_bad"),
          Line("object", None, "num", Ts0, 0, "other", "-")}

\* The body of scan_sessions' loop for one line: "skip" (a blank or
\* unparsable line), "raise", "meta" (a session_meta: cwd is set), "nocwd"
\* (no session_meta yet), "break" (the file belongs to another project),
\* "prompt" (a user prompt with its date), "undated" (a user prompt whose
\* timestamp does not parse) or "pass" (any other entry of the project).
ScanStep(line, dir, path, filter) ==
    CASE line.k \in {"blank", "notjson"} -> "skip"
      [] line.k = "nonobject" -> "raise"
      [] OTHER ->
            IF line.type = "session_meta"
            THEN IF line.content = "payload_bad" THEN "raise" ELSE "meta"
            ELSE IF dir = None THEN "nocwd"
            ELSE IF Truthy(path) /\ dir # path THEN "break"
            ELSE IF Truthy(filter)
                    /\ ~Contains(Lower(Basename(dir)), Lower(filter))
                 THEN "break"
            ELSE IF line.type # "event_msg" THEN "pass"
            ELSE IF line.content = "payload_bad" THEN "raise"
            ELSE IF line.content # "user_message" THEN "pass"
            ELSE IF line.tsk = "num" THEN "prompt" ELSE "undated"

\* sorted(seq) for a list of numbers
RECURSIVE SortList(_)
SortList(seq) ==
    IF seq = <<>> THEN <<>>
    ELSE LET m == CHOOSE i \in 1..Len(seq) : \A j \in 1..Len(seq) : seq[i] <= seq[j]
         IN  <<seq[m]>> \o SortList(SubSeq(seq, 1, m - 1) \o SubSeq(seq, m + 1, Len(seq)))

\* The loop of scan_sessions over session_prompts: daily
RECURSIVE FlushDaily(_, _)
FlushDaily(counts, prompts) ==
    IF prompts = <<>> THEN counts
    ELSE FlushDaily(IF Head(prompts).ok THEN Incr(counts, Head(prompts).date)
                    ELSE counts,
                    Tail(prompts))

\* The loop of scan_sessions over session_prompts: timestamps
RECURSIVE FlushStamps(_, _)
FlushStamps(stamps, prompts) ==
    IF prompts = <<>> THEN stamps
    ELSE FlushStamps(IF Head(prompts).ok THEN Append(stamps, Head(prompts).ts)
                     ELSE stamps,
                     Tail(prompts))

\* scan_sessions, after the lines of one file
EndOfRollout(prompts) ==
    /\ file_open' = FALSE
    /\ sessions_found' = IF prompts # <<>> THEN sessions_found + 1
                         ELSE sessions_found
    /\ daily' = FlushDaily(daily, prompts)
    /\ timestamps' = FlushStamps(timestamps, prompts)

\* find_alternate_paths of codex_messages.py: it reads every rollout file
\* up to its first session_meta
CodexAlternates(dir_ok, firsts, path) ==
    IF ~dir_ok THEN {}
    ELSE {IF firsts[i].id = None THEN <<>> ELSE firsts[i].id :
             i \in {j \in 1..Len(firsts) :
                       /\ firsts[j].k = "object"
                       /\ firsts[j].type = "session_meta"
                       /\ IsAlternate(firsts[j].id, path)}}

\* main of codex_messages.py after scan_sessions: the report, with the
\* folder-move detection
CodexPrint(counts, stamps, found) ==
    LET wanted == SumValues(counts) = 0 /\ Truthy(project_path)
        alts == IF wanted
                THEN CodexAlternates(store_ok, first_lines, project_path)
                ELSE {}
    IN  /\ searched' = wanted
        /\ alternates' = alts
        /\ out' = [Report(counts, 0, 0, SortList(stamps), alts)
                       EXCEPT !.sessions_found = found]
        /\ exit_status' = 0
        /\ pc' = "done"

\* main, up to the loop of scan_sessions over the rollout files
CodexMain ==
    /\ script = "codex"
    /\ pc = "start"
    /\ UNCHANGED <<argVars, gitVars, cursorVars, project_dirs, daily_history, daily_sessions, seen_ts,
                   nhist, nsess, dir_idx, file_open, todo_dirs, hist_ts,
                   codexVars, last>>
    /\ IF ~Truthy(project_path) /\ ~Truthy(name_filter)
       THEN /\ out' = ErrorOutput
            /\ exit_status' = 0
            /\ pc' = "done"
            /\ UNCHANGED <<searched, alternates>>
       ELSE IF ~store_ok
       THEN CodexPrint(EmptyDaily, <<>>, 0)
       ELSE /\ pc' = "scan"
            /\ UNCHANGED <<out, exit_status, searched, alternates>>

\* scan_sessions: open the next rollout file; nothing catches the error of
\* a file that cannot be opened
CodexOpenFile ==
    /\ script = "codex"
    /\ pc = "scan"
    /\ ~file_open
    /\ Len(first_lines) < MaxCodexFiles
    /\ \E readable \in BOOLEAN :
          IF readable
          THEN /\ file_open' = TRUE
               /\ cwd' = None
               /\ session_prompts' = <<>>
               /\ UNCHANGED nlines
               /\ first_lines' = Append(first_lines, NoLine)
               /\ last' = NoLast
               /\ UNCHANGED <<pc, out, exit_status>>
          ELSE /\ Crash("PermissionError")
               /\ UNCHANGED <<file_open, cwd, session_prompts, nlines,
                              first_lines, last>>
    /\ UNCHANGED <<argVars, gitVars, cursorVars, project_dirs, daily_history, daily_sessions, seen_ts,
                   alternates, nhist, nsess, dir_idx, todo_dirs, hist_ts,
                   searched, daily, timestamps, sessions_found>>

\* scan_sessions: one line of a rollout file
CodexLine ==
    /\ script = "codex"
    /\ pc = "scan"
    /\ file_open
    /\ nlines < MaxCodexLines
    /\ \E line \in CodexLines :
          LET res == ScanStep(line, cwd, project_path, name_filter)
              cur == Len(first_lines)
          IN  /\ last' = [src |-> "codex", line |-> line, res |-> res]
              /\ nlines' = nlines + 1
              /\ first_lines' =
                     IF first_lines[cur] = NoLine /\ res = "meta"
                     THEN [first_lines EXCEPT ![cur] = line]
                     ELSE first_lines
              /\ cwd' = IF res = "meta"
                        THEN (IF line.id = None THEN <<>> ELSE line.id)
                        ELSE cwd
              /\ session_prompts' =
                     CASE res = "prompt" ->
                              Append(session_prompts,
                                     [ok |-> TRUE,
                                      date |-> IsoDate(line.ts, line.off),
                                      ts |-> line.ts])
                       [] res = "undated" ->
                              Append(session_prompts,
                                     [ok |-> FALSE, date |-> 0, ts |-> 0])
                       [] OTHER -> session_prompts
              /\ IF res = "raise"
                 THEN /\ Crash("AttributeError")
                      /\ UNCHANGED <<file_open, sessions_found, daily, timestamps>>
                 ELSE /\ UNCHANGED <<pc, out, exit_status>>
                      /\ IF res = "break"
                         THEN EndOfRollout(session_prompts)
                         ELSE UNCHANGED <<file_open, sessions_found, daily,
                                          timestamps>>
    /\ UNCHANGED <<argVars, gitVars, cursorVars, project_dirs, daily_history, daily_sessions, seen_ts,
                   alternates, nhist, nsess, dir_idx, todo_dirs, hist_ts,
                   searched>>

\* scan_sessions: end of a rollout file
CodexCloseFile ==
    /\ script = "codex"
    /\ pc = "scan"
    /\ file_open
    /\ EndOfRollout(session_prompts)
    /\ UNCHANGED <<argVars, gitVars, cursorVars, project_dirs, daily_history, daily_sessions, seen_ts,
                   alternates, nhist, nsess, dir_idx, todo_dirs, hist_ts,
                   searched, cwd, session_prompts, first_lines, nlines, last,
                   pc, out, exit_status>>

\* scan_sessions returns; main prints the report
CodexReport ==
    /\ script = "codex"
    /\ pc = "scan"
    /\ ~file_open
    /\ CodexPrint(daily, timestamps, sessions_found)
    /\ UNCHANGED <<argVars, gitVars, cursorVars, project_dirs, daily_history, daily_sessions, seen_ts,
                   nhist, nsess, dir_idx, file_open, todo_dirs, hist_ts,
                   codexVars, last>>

CodexNext ==
    \/ CodexMain
    \/ CodexOpenFile
    \/ CodexLine
    \/ CodexCloseFile
    \/ CodexReport

\* ------------------------------------------------------ cursor_messages.py

\* A numeric timestamp v of the Cursor stores is modelled by the integer
\* v - 1_000_000_000_000, its distance in milliseconds from the threshold of
\* the magnitude test (TLC's integers do not reach 10^12); an ISO string is
\* modelled by its instant, given the same way.

\* An optional JSON value: absent, a number, or a value of another shape.
Absent == [has |-> "none", v |-> 0]
Num(n) == [has |-> "num", v |-> n]
Unparsable == [has |-> "bad", v |-> 0]

\* `val > 1_000_000_000_000`
AboveThreshold(n) == n > 0

\* datetime.fromtimestamp(ts, tz=timezone.utc).strftime("%Y-%m-%d"): 10^12 ms
\* after the epoch is 6_400_000 ms into day 11574
CursorDate(n) == 11574 + (6400 * 1000 + n) \div DayMs

\* A composerData row of cursorDiskKV with its workspaceUri as a path (empty
\* when the row has none), and a row whose value is no JSON object.
Row(ws) == [k |-> "row", ws |-> ws]
BadRow == [k |-> "nonobject", ws |-> <<>>]
ComposerRows == {BadRow} \cup {Row(p) : p \in {PAB, PXB, <<>>}}

\* A bubble of cursorDiskKV: type, createdAt, a timingInfo field, timestamp.
Bubble(type, created, timing, stamp) ==
    [k |-> "bubble", type |-> type, created |-> created, timing |-> timing,
     stamp |-> stamp]
BadBubble == [k |-> "nonobject", type |-> 0, created |-> Absent,
              timing |-> Absent, stamp |-> Absent]
Bubbles ==
    {BadBubble,
     Bubble(2, Absent, Absent, Num(400)),
     Bubble(1, Num(400), Absent, Absent),
     Bubble(1, Absent, Num(600), Absent),
     Bubble(1, Absent, Absent, Num(0)),
     Bubble(1, Absent, Absent, Num(1400)),
     Bubble(1, Absent, Absent, Num(DayMs + 400)),
     Bubble(1, Unparsable, Num(0), Num(600))}

\* An entry of allComposers in a workspace's composer.composerData.
Composer(created, updated) ==
    [k |-> "composer", created |-> created, updated |-> updated]
BadComposer == [k |-> "nonobject", created |-> Absent, updated |-> Absent]
Composers ==
    {BadComposer,
     Composer(Absent, Absent),
     Composer(Num(400), Num(1400)),
     Composer(Num(600), Num(600)),
     Composer(Num(0), Absent)}

\* A message of a legacy chat session of a workspace.
Message(role, stamp) == [k |-> "legacy", role |-> role, stamp |-> stamp]
Messages ==
    {Message("user", Num(400)),
     Message("user", Num(1400)),
     Message("user", Num(0)),
     Message("assistant", Num(400))}

\* _extract_bubble_timestamp
extract_bubble_timestamp(bubble) ==
    IF bubble.created.has = "num" THEN bubble.created
    ELSE IF bubble.timing.has = "num" /\ AboveThreshold(bubble.timing.v)
         THEN bubble.timing
    ELSE IF bubble.stamp.has = "num" /\ AboveThreshold(bubble.stamp.v)
         THEN bubble.stamp
    ELSE Absent

\* collect_from_global_storage: the test of one composerData row; a row that
\* raises is skipped
RowMatches(row, path, filter) ==
    IF row.k # "row" THEN FALSE
    ELSE IF Truthy(path)
         THEN row.ws # <<>> /\ paths_match(row.ws, path)
    ELSE IF Truthy(filter)
         THEN LET basename == IF row.ws # <<>> THEN Basename(NormPath(row.ws))
                              ELSE <<>>
              IN  basename # <<>> /\ Contains(Lower(basename), Lower(filter))
    ELSE TRUE

\* collect_from_workspace_storage: the test of one workspace mapping
WorkspaceMatches(ws_path, path, filter) ==
    /\ Truthy(path) => paths_match(ws_path, path)
    /\ Truthy(filter) =>
           Contains(Lower(Basename(NormPath(ws_path))), Lower(filter))

\* daily[date] += 1 for every timestamp of a list
RECURSIVE CountAll(_, _)
CountAll(counts, stamps) ==
    IF stamps = <<>> THEN counts
    ELSE CountAll(Incr(counts, CursorDate(Head(stamps))), Tail(stamps))

\* collect_from_workspace_storage: the timestamps of a list that pass the
\* magnitude test and are not seen yet, each rounded second taken once
RECURSIVE Fresh(_, _)
Fresh(values, seen) ==
    IF values = <<>> THEN <<>>
    ELSE LET x == Head(values)
             take == /\ x.has = "num"
                     /\ AboveThreshold(x.v)
                     /\ RoundSec(x.v) \notin seen
         IN  IF take
             THEN <<x.v>> \o Fresh(Tail(values), seen \cup {RoundSec(x.v)})
             ELSE Fresh(Tail(values), seen)

\* The elements of a list, as a set.
Range(seq) == {seq[i] : i \in 1..Len(seq)}

\* find_alternate_paths of cursor_messages.py over the workspace mappings
\* and the workspaceUri of the composerData rows
CursorAlternates(mappings, rows, path) ==
    LET target_name == Basename(NormPath(path))
    IN  {p \in Range(mappings) \cup rows :
            /\ p # <<>>
            /\ ~paths_match(p, path)
            /\ Basename(NormPath(p)) = target_name}

\* What cursor_messages.py leaves alone.
notCursor ==
    <<argVars, gitVars, codexVars, project_dirs, daily_history, daily_sessions,
      nhist, nsess, dir_idx, file_open, todo_dirs, hist_ts>>

\* main, up to the first query of collect_from_global_storage; without the
\* global database the function returns nothing
CursorMain ==
    /\ script = "cursor"
    /\ pc = "start"
    /\ IF ~Truthy(project_path) /\ ~Truthy(name_filter)
       THEN /\ out' = ErrorOutput
            /\ exit_status' = 0
            /\ pc' = "done"
       ELSE /\ pc' = IF store_ok THEN "global" ELSE "workspace"
            /\ UNCHANGED <<out, exit_status>>
    /\ UNCHANGED <<notCursor, cursorVars, seen_ts, alternates, searched, last>>

\* collect_from_global_storage: one composerData row
CursorRow ==
    /\ script = "cursor"
    /\ pc = "global"
    /\ nrows + nitems < MaxCursorItems
    /\ \E row \in ComposerRows :
          LET hit == RowMatches(row, project_path, name_filter)
          IN  /\ matching_session_ids' =
                     IF hit THEN Append(matching_session_ids, nrows + 1)
                     ELSE matching_session_ids
              /\ composer_paths' = IF row.k = "row"
                                   THEN composer_paths \cup {row.ws}
                                   ELSE composer_paths
              /\ last' = [src |-> "row", line |-> row,
                          res |-> IF hit THEN "match" ELSE "skip"]
    /\ nrows' = nrows + 1
    /\ UNCHANGED <<notCursor, session_ts, daily_global, ts_global,
                   sessions_global, daily_ws, ts_ws, sessions_ws, ws_idx,
                   nitems, has_msgs, seen_ts, alternates, searched, pc, out,
                   exit_status>>

\* collect_from_global_storage: the rows are read, the loop over the
\* matching sessions begins
CursorRowsEnd ==
    /\ script = "cursor"
    /\ pc = "global"
    /\ pc' = "bubbles"
    /\ UNCHANGED <<notCursor, cursorVars, seen_ts, alternates, searched, last,
                   out, exit_status>>

\* collect_from_global_storage: one bubble of the session being read
CursorBubble ==
    /\ script = "cursor"
    /\ pc = "bubbles"
    /\ matching_session_ids # <<>>
    /\ nrows + nitems < MaxCursorItems
    /\ \E bubble \in Bubbles :
          LET ts_epoch == extract_bubble_timestamp(bubble)
              res == IF bubble.k = "nonobject" THEN "raise"
                     ELSE IF bubble.type # 1 THEN "skip"
                     ELSE IF ts_epoch.has = "num" THEN "count"
                     ELSE "undated"
          IN  /\ last' = [src |-> "bubble", line |-> bubble, res |-> res]
              /\ IF res = "raise"
                 THEN Crash("AttributeError") /\ UNCHANGED session_ts
                 ELSE /\ UNCHANGED <<pc, out, exit_status>>
                      /\ session_ts' = IF res = "count"
                                       THEN Append(session_ts, ts_epoch.v)
                                       ELSE session_ts
    /\ nitems' = nitems + 1
    /\ UNCHANGED <<notCursor, composer_paths, nrows, matching_session_ids,
                   daily_global, ts_global, sessions_global, daily_ws, ts_ws,
                   sessions_ws, ws_idx, has_msgs, seen_ts, alternates,
                   searched>>

\* collect_from_global_storage: the bubbles of one session are read
CursorSessionEnd ==
    /\ script = "cursor"
    /\ pc = "bubbles"
    /\ matching_session_ids # <<>>
    /\ matching_session_ids' = Tail(matching_session_ids)
    /\ session_ts' = <<>>
    /\ sessions_global' = IF session_ts # <<>> THEN sessions_global + 1
                          ELSE sessions_global
    /\ daily_global' = CountAll(daily_global, session_ts)
    /\ ts_global' = ts_global \o session_ts
    /\ UNCHANGED <<notCursor, composer_paths, nrows, daily_ws, ts_ws,
                   sessions_ws, ws_idx, nitems, has_msgs, seen_ts, alternates,
                   searched, last, pc, out, exit_status>>

\* A seen set that takes nothing from the global timestamps.
SeenNothing(stamps) == {}

\* main: seen_ts = {round(t) for t in ts_global}
SeenFromGlobal(stamps) == {RoundSec(t) : t \in Range(stamps)}

\* collect_from_global_storage returns; main fills seen_ts
CursorGlobalEnd ==
    /\ script = "cursor"
    /\ pc = "bubbles"
    /\ matching_session_ids = <<>>
    /\ ts_global' = SortList(ts_global)
    /\ seen_ts' = SeenFromGlobal(ts_global)
    /\ pc' = "workspace"
    /\ UNCHANGED <<notCursor, composer_paths, nrows, matching_session_ids,
                   session_ts, daily_global, sessions_global, daily_ws,
                   ts_ws, sessions_ws, ws_idx, nitems, has_msgs, alternates,
                   searched, last, out, exit_status>>

\* collect_from_workspace_storage: the next workspace mapping; a workspace
\* of another project, or one whose state.vscdb is missing or cannot be
\* read, is passed over
CursorWorkspace ==
    /\ script = "cursor"
    /\ pc = "workspace"
    /\ ws_idx <= Len(ws_mappings)
    /\ \E opened \in BOOLEAN :
          IF opened /\ WorkspaceMatches(ws_mappings[ws_idx], project_path,
                                        name_filter)
          THEN pc' = "composers" /\ UNCHANGED ws_idx
          ELSE ws_idx' = ws_idx + 1 /\ UNCHANGED pc
    /\ UNCHANGED <<notCursor, composer_paths, nrows, matching_session_ids,
                   session_ts, daily_global, ts_global, sessions_global,
                   daily_ws, ts_ws, sessions_ws, nitems, has_msgs, seen_ts,
                   alternates, searched, last, out, exit_status>>

\* collect_from_workspace_storage: one entry of allComposers
CursorComposer ==
    /\ script = "cursor"
    /\ pc = "composers"
    /\ nrows + nitems < MaxCursorItems
    /\ \E composer \in Composers :
          LET fresh == Fresh(<<composer.created, composer.updated>>, seen_ts)
          IN  IF composer.k = "nonobject"
              THEN /\ Crash("AttributeError")
                   /\ last' = [src |-> "composer", line |-> composer,
                               res |-> "raise"]
                   /\ UNCHANGED <<seen_ts, daily_ws, ts_ws, sessions_ws>>
              ELSE /\ UNCHANGED <<pc, out, exit_status>>
                   /\ last' = [src |-> "composer", line |-> composer,
                               res |-> IF fresh # <<>> THEN "count" ELSE "skip"]
                   /\ seen_ts' = seen_ts \cup {RoundSec(t) : t \in Range(fresh)}
                   /\ daily_ws' = CountAll(daily_ws, fresh)
                   /\ ts_ws' = ts_ws \o fresh
                   /\ sessions_ws' =
                          IF composer.created.has # "none"
                             \/ composer.updated.has # "none"
                          THEN sessions_ws + 1 ELSE sessions_ws
    /\ nitems' = nitems + 1
    /\ UNCHANGED <<notCursor, composer_paths, nrows, matching_session_ids,
                   session_ts, daily_global, ts_global, sessions_global,
                   ws_idx, has_msgs, alternates, searched>>

\* collect_from_workspace_storage: allComposers is read, the legacy chat
\* data follows
CursorComposersEnd ==
    /\ script = "cursor"
    /\ pc = "composers"
    /\ pc' = "legacy"
    /\ UNCHANGED <<notCursor, cursorVars, seen_ts, alternates, searched, last,
                   out, exit_status>>

\* collect_from_workspace_storage: one message of a legacy chat session
CursorMessage ==
    /\ script = "cursor"
    /\ pc = "legacy"
    /\ nrows + nitems < MaxCursorItems
    /\ \E msg \in Messages :
          LET fresh == IF msg.role = "user" THEN Fresh(<<msg.stamp>>, seen_ts)
                       ELSE <<>>
          IN  /\ last' = [src |-> "legacy", line |-> msg,
                          res |-> IF fresh # <<>> THEN "count" ELSE "skip"]
              /\ seen_ts' = seen_ts \cup {RoundSec(t) : t \in Range(fresh)}
              /\ daily_ws' = CountAll(daily_ws, fresh)
              /\ ts_ws' = ts_ws \o fresh
              /\ has_msgs' = (has_msgs \/ fresh # <<>>)
    /\ nitems' = nitems + 1
    /\ UNCHANGED <<notCursor, composer_paths, nrows, matching_session_ids,
                   session_ts, daily_global, ts_global, sessions_global,
                   sessions_ws, ws_idx, alternates, searched, pc, out,
                   exit_status>>

\* collect_from_workspace_storage: the messages of one legacy chat session
\* are read
CursorChatEnd ==
    /\ script = "cursor"
    /\ pc = "legacy"
    /\ has_msgs
    /\ sessions_ws' = sessions_ws + 1
    /\ has_msgs' = FALSE
    /\ UNCHANGED <<notCursor, composer_paths, nrows, matching_session_ids,
                   session_ts, daily_global, ts_global, sessions_global,
                   daily_ws, ts_ws, ws_idx, nitems, seen_ts, alternates,
                   searched, last, pc, out, exit_status>>

\* collect_from_workspace_storage: the workspace's database is read
CursorWorkspaceEnd ==
    /\ script = "cursor"
    /\ pc = "legacy"
    /\ ~has_msgs
    /\ pc' = "workspace"
    /\ ws_idx' = ws_idx + 1
    /\ UNCHANGED <<notCursor, composer_paths, nrows, matching_session_ids,
                   session_ts, daily_global, ts_global, sessions_global,
                   daily_ws, ts_ws, sessions_ws, nitems, has_msgs, seen_ts,
                   alternates, searched, last, out, exit_status>>

\* collect_from_workspace_storage returns; main merges, looks for alternate
\* paths when nothing was counted for a concrete path, and prints the
\* report (history and session_files hold the subtotals global_storage and
\* workspace_storage)
CursorReport ==
    /\ script = "cursor"
    /\ pc = "workspace"
    /\ ws_idx > Len(ws_mappings)
    /\ LET daily_merged == Merged(daily_global, daily_ws)
           all_timestamps == SortInts(Range(ts_global) \cup Range(ts_ws))
           wanted == SumValues(daily_merged) = 0 /\ Truthy(project_path)
           alts == IF wanted
                   THEN CursorAlternates(ws_mappings, composer_paths,
                                         project_path)
                   ELSE {}
       IN  /\ searched' = wanted
           /\ alternates' = alts
           /\ out' = [Report(daily_merged, SumValues(daily_global),
                             SumValues(daily_ws), all_timestamps, alts)
                          EXCEPT !.sessions_found = sessions_global + sessions_ws]
    /\ ts_ws' = SortList(ts_ws)
    /\ exit_status' = 0
    /\ pc' = "done"
    /\ UNCHANGED <<notCursor, composer_paths, nrows, matching_session_ids,
                   session_ts, daily_global, ts_global, sessions_global,
                   daily_ws, sessions_ws, ws_idx, nitems, has_msgs, seen_ts,
                   last>>

CursorNext ==
    \/ CursorMain
    \/ CursorRow
    \/ CursorRowsEnd
    \/ CursorBubble
    \/ CursorSessionEnd
    \/ CursorGlobalEnd
    \/ CursorWorkspace
    \/ CursorComposer
    \/ CursorComposersEnd
    \/ CursorMessage
    \/ CursorChatEnd
    \/ CursorWorkspaceEnd
    \/ CursorReport

\* --------------------------------------------------------- git_sessions.py

\* Times and durations of git_sessions.py are in minutes.

\* SESSION_GAP_HOURS = 1.5
SESSION_GAP_HOURS == 90
\* SESSION_BUFFER = 0.5
SESSION_BUFFER == 30
\* MIN_SESSION_HOURS = 0.5
MIN_SESSION_HOURS == 30

DayMin == 24 * 60

\* 23:30 UTC of day 0
GitT == DayMin - 30

\* A line of the git log output whose date parses: the instant ts and the
\* UTC offset off of "%ai".
Commit(ts, off) == [ok |-> TRUE, ts |-> ts, off |-> off]

\* A line without a tab, or whose date datetime.fromisoformat rejects.
BadCommit == [ok |-> FALSE, ts |-> 0, off |-> 0]

\* Lines of the git log output.
CommitLines ==
    {BadCommit}
    \cup {Commit(GitT + d, 0) : d \in {0, 60, 150, 151, 180, 190}}
    \cup {Commit(GitT, 60)}

\* sorted(commits, key=lambda c: c["ts"]): stable
RECURSIVE SortCommits(_)
SortCommits(cs) ==
    IF cs = <<>> THEN <<>>
    ELSE LET init == SortCommits(SubSeq(cs, 1, Len(cs) - 1))
             c == cs[Len(cs)]
             k == Cardinality({i \in 1..Len(init) : init[i].ts <= c.ts})
         IN  SubSeq(init, 1, k) \o <<c>> \o SubSeq(init, k + 1, Len(init))

\* A clustering that also splits at a gap of exactly the threshold.
NewSessionAtThreshold(gap) == gap >= SESSION_GAP_HOURS

\* detect_sessions: `gap > SESSION_GAP_HOURS`
NewSession(gap) == gap > SESSION_GAP_HOURS

\* max(a, b)
Max(a, b) == IF a >= b THEN a ELSE b

\* A duration without the overhead buffer.
HoursWithoutBuffer(session) ==
    IF Len(session) = 1 THEN MIN_SESSION_HOURS
    ELSE Max(session[Len(session)].ts - session[1].ts, MIN_SESSION_HOURS)

\* session_hours
session_hours(session) ==
    LET raw == IF Len(session) = 1 THEN 0
               ELSE session[Len(session)].ts - session[1].ts
    IN  Max(raw + SESSION_BUFFER, MIN_SESSION_HOURS)

\* start.strftime("%Y-%m-%d") of an aware datetime: the date on the clock of
\* the commit's own offset.
CommitDate(c) == (c.ts + c.off) \div DayMin

\* main: the entry of session_data for one session (duration_h before its
\* rounding to two decimals)
SessionEntry(s) ==
    [date |-> CommitDate(s[1]),
     start |-> (s[1].ts + s[1].off) % DayMin,
     end |-> (s[Len(s)].ts + s[Len(s)].off) % DayMin,
     duration_h |-> session_hours(s),
     commits |-> Len(s)]

\* A bucket that keeps only the hours of the session booked last.
SetHours(dh, date, h) ==
    [x \in (DOMAIN dh) \cup {date} |-> IF x = date THEN h ELSE dh[x]]

\* daily_hours[date] += h
AddHours(dh, date, h) ==
    [x \in (DOMAIN dh) \cup {date} |->
        IF x = date THEN Get(dh, date) + h ELSE dh[x]]

\* main: daily_hours after the loop over the sessions
RECURSIVE DailyHours(_, _)
DailyHours(dh, ss) ==
    IF ss = <<>> THEN dh
    ELSE DailyHours(AddHours(dh, CommitDate(Head(ss)[1]), session_hours(Head(ss))),
                    Tail(ss))

\* main: total_hours after the loop over the sessions
RECURSIVE TotalHours(_)
TotalHours(ss) ==
    IF ss = <<>> THEN 0 ELSE session_hours(Head(ss)) + TotalHours(Tail(ss))

\* print(json.dumps({"error": "No commits found"}))
GitNoCommits(failed) ==
    /\ out' = [NoOutput EXCEPT !.kind = "error", !.error = "No commits found",
                               !.stderr = failed]
    /\ exit_status' = 0
    /\ pc' = "done"

\* Everything but the state of git_sessions.py, its position and output.
promptVars == <<argVars, claudeVars, codexVars, cursorVars, searched, last>>

\* main and get_commits, up to the result of git log: a non-zero return code
\* prints git's message on stderr and get_commits returns []
GitMain ==
    /\ script = "git"
    /\ pc = "start"
    /\ \E ok \in BOOLEAN :
          /\ git_ok' = ok
          /\ IF ok
             THEN /\ pc' = "log"
                  /\ UNCHANGED <<out, exit_status>>
             ELSE GitNoCommits(TRUE)
    /\ UNCHANGED <<promptVars, commits, nlog, sessions, current, ci,
                   session_data, daily_hours, total_hours>>

\* get_commits: one line of the git log output
GitLogLine ==
    /\ script = "git"
    /\ pc = "log"
    /\ nlog < MaxCommits
    /\ \E line \in CommitLines :
          commits' = IF line.ok THEN Append(commits, line) ELSE commits
    /\ nlog' = nlog + 1
    /\ UNCHANGED <<promptVars, git_ok, sessions, current, ci, session_data,
                   daily_hours, total_hours, pc, out, exit_status>>

\* get_commits returns the sorted commits; main prints the error for none,
\* and detect_sessions starts with the first commit
GitLogEnd ==
    /\ script = "git"
    /\ pc = "log"
    /\ commits' = SortCommits(commits)
    /\ IF commits = <<>>
       THEN /\ GitNoCommits(FALSE)
            /\ UNCHANGED <<current, ci>>
       ELSE /\ current' = <<SortCommits(commits)[1]>>
            /\ ci' = 2
            /\ pc' = "detect"
            /\ UNCHANGED <<out, exit_status>>
    /\ UNCHANGED <<promptVars, git_ok, nlog, sessions, session_data,
                   daily_hours, total_hours>>

\* detect_sessions: the loop body for one commit
GitDetectStep ==
    /\ script = "git"
    /\ pc = "detect"
    /\ ci <= Len(commits)
    /\ LET commit == commits[ci]
           gap == commit.ts - current[Len(current)].ts
       IN  IF NewSession(gap)
           THEN /\ sessions' = Append(sessions, current)
                /\ current' = <<commit>>
           ELSE /\ current' = Append(current, commit)
                /\ UNCHANGED sessions
    /\ ci' = ci + 1
    /\ UNCHANGED <<promptVars, git_ok, commits, nlog, session_data,
                   daily_hours, total_hours, pc, out, exit_status>>

\* A result of detect_sessions that leaves out the session still open.
WithoutOpenSession(ss, cur) == ss

\* detect_sessions: sessions.append(current); return sessions
CloseSessions(ss, cur) == Append(ss, cur)

\* detect_sessions returns; main builds and prints the report
GitReport ==
    /\ script = "git"
    /\ pc = "detect"
    /\ ci > Len(commits)
    /\ LET all == CloseSessions(sessions, current)
       IN  /\ sessions' = all
           /\ session_data' = [i \in 1..Len(all) |-> SessionEntry(all[i])]
           /\ daily_hours' = DailyHours(EmptyDaily, all)
           /\ total_hours' = TotalHours(all)
    /\ out' = [NoOutput EXCEPT !.kind = "git_report"]
    /\ exit_status' = 0
    /\ pc' = "done"
    /\ UNCHANGED <<promptVars, git_ok, commits, nlog, current, ci>>

GitNext ==
    \/ GitMain
    \/ GitLogLine
    \/ GitLogEnd
    \/ GitDetectStep
    \/ GitReport

\* ------------------------------------------------------------------- runs

\* The directories a projects directory may hold: Claude names them by
\* encoding the working directory.
DirNames == {path_to_encoded(p) : p \in StoredPaths}

InitClaude ==
    /\ script = "claude"
    /\ store_ok \in BOOLEAN
    /\ history_ok \in BOOLEAN
    /\ dir_names \in SUBSET DirNames
    /\ (~store_ok => dir_names = {})
    /\ ws_mappings = <<>>

InitCodex ==
    /\ script = "codex"
    /\ store_ok \in BOOLEAN
    /\ history_ok = FALSE
    /\ dir_names = {}
    /\ ws_mappings = <<>>

\* The paths workspace.json files map their workspaces to.
WsPaths == {PAB, PXB}

\* store_ok: globalStorage/state.vscdb exists and has the cursorDiskKV table
InitCursor ==
    /\ script = "cursor"
    /\ store_ok \in BOOLEAN
    /\ history_ok = FALSE
    /\ dir_names = {}
    /\ \E n \in 0..MaxWs : ws_mappings \in [1..n -> WsPaths]

\* The locals of every script before it runs.
InitLocals ==
    /\ pc = "start"
    /\ project_dirs = <<>>
    /\ daily_history = EmptyDaily
    /\ daily_sessions = EmptyDaily
    /\ seen_ts = {}
    /\ alternates = {}
    /\ nhist = 0
    /\ nsess = 0
    /\ dir_idx = 1
    /\ file_open = FALSE
    /\ todo_dirs = {}
    /\ hist_ts = {}
    /\ searched = FALSE
    /\ cwd = None
    /\ session_prompts = <<>>
    /\ daily = EmptyDaily
    /\ timestamps = <<>>
    /\ sessions_found = 0
    /\ first_lines = <<>>
    /\ nlines = 0
    /\ last = NoLast
    /\ out = NoOutput
    /\ exit_status = -1
    /\ git_ok = TRUE
    /\ commits = <<>>
    /\ nlog = 0
    /\ sessions = <<>>
    /\ current = <<>>
    /\ ci = 1
    /\ session_data = <<>>
    /\ daily_hours = EmptyDaily
    /\ total_hours = 0
    /\ composer_paths = {}
    /\ nrows = 0
    /\ matching_session_ids = <<>>
    /\ session_ts = <<>>
    /\ daily_global = EmptyDaily
    /\ ts_global = <<>>
    /\ sessions_global = 0
    /\ daily_ws = EmptyDaily
    /\ ts_ws = <<>>
    /\ sessions_ws = 0
    /\ ws_idx = 1
    /\ nitems = 0
    /\ has_msgs = FALSE

\* A run of a prompt-counting script.
Init ==
    /\ project_path \in PathArgs
    /\ name_filter \in FilterArgs
    /\ (InitClaude \/ InitCodex \/ InitCursor)
    /\ InitLocals

Next == ClaudeNext \/ CodexNext \/ CursorNext

Spec == Init /\ [][Next]_vars

\* A run of git_sessions.py; the repository is its one required argument.
InitGit ==
    /\ script = "git"
    /\ project_path = PAB
    /\ name_filter = None
    /\ store_ok = TRUE
    /\ history_ok = FALSE
    /\ dir_names = {}
    /\ ws_mappings = <<>>
    /\ InitLocals

SpecGit == InitGit /\ [][GitNext]_vars

\* ----------------------------------------------------------------- claims

\* The run has ended by printing a report.
Reported == pc = "done" /\ out.kind = "report"

\* C1: in every Claude report no rounded-to-the-second epoch is counted more
\* than once: the sum of the daily counts equals the number of distinct
\* rounded epochs among the counted records (seen_ts holds exactly those),
\* also when two primary records share a rounded second.
C1_NoEpochCountedTwice ==
    (script = "claude" /\ Reported) => out.total = Cardinality(seen_ts)

\* C2: dedup idempotence: a fallback (session-file) record that lies within
\* one second of a counted primary (history) record is never counted, so it
\* cannot raise a daily count above what the primary stream contributes;
\* stated for the exact epochs, whatever second each rounds to.
C2_DedupWithinOneSecond ==
    (script = "claude" /\ last.src = "session" /\ last.res = "count")
        => \A p \in hist_ts :
              last.line.ts - p > 1000 \/ p - last.line.ts > 1000

\* The classification the specification gives for a content payload: a
\* string (or no payload) is real, a list is real unless its first element
\* is tagged tool_result.
SpecReal(content) ==
    content \in {"str", "missing", "list_text", "list_empty", "list_bad"}

\* A session entry that passes every test of the fallback adapter other
\* than is_real_prompt.
Candidate(line) ==
    /\ line.k = "object"
    /\ line.type = "user"
    /\ (Truthy(project_path) => line.id = project_path)
    /\ line.tsk = "num"

\* C3: is_real_prompt classifies every string payload (a missing one too)
\* as real and every list payload as real unless its first element is a
\* tool_result, the empty list included; a tool_result list is never
\* counted by the fallback adapter.
C3_RealPromptClassification ==
    (script = "claude" /\ last.src = "session" /\ Candidate(last.line))
        => /\ SpecReal(last.line.content) => last.res \in {"count", "dup"}
           /\ last.line.content = "list_tool" => last.res = "skip"

\* Only --filter was given.
FilterMode == ~Truthy(project_path) /\ Truthy(name_filter)

\* The final path component of p contains f, case-insensitively.
BasenameContains(p, f) == Contains(Lower(Basename(p)), Lower(f))

\* The line read last was tested against the cwd of its Codex session.
CodexTested == last.src = "codex" /\ last.res \in {"break", "pass", "prompt", "undated"}

\* C4: basename invariance in filter mode: a stored project path is matched
\* by --filter F exactly when its final path component contains F,
\* case-insensitively (Claude: the project directories selected; Codex: the
\* sessions whose entries are kept; Cursor: the composerData rows matched).
C4_FilterMatchesBasenameOnly ==
    /\ (script = "claude" /\ FilterMode /\ pc # "start")
           => \A p \in StoredPaths :
                 path_to_encoded(p) \in dir_names
                     => ((\E i \in 1..Len(project_dirs) :
                             project_dirs[i] = path_to_encoded(p))
                         <=> BasenameContains(p, name_filter))
    /\ (script = "codex" /\ FilterMode /\ CodexTested)
           => (last.res # "break" <=> BasenameContains(cwd, name_filter))
    /\ (script = "cursor" /\ FilterMode /\ last.src = "row"
            /\ last.line.k = "row" /\ last.line.ws # <<>>)
           => (last.res = "match"
                  <=> BasenameContains(last.line.ws, name_filter))

\* C5: exact-path matching is normalization-invariant: a stored project
\* identifier that normalizes to the same path as --project-path (a
\* trailing slash, "." or ".." components) is matched as the identical
\* string is.
C5_ExactMatchNormalized ==
    /\ (script = "claude" /\ Truthy(project_path) /\ last.src = "history"
            /\ last.line.k = "object" /\ last.line.id # None
            /\ last.line.tsk = "num"
            /\ paths_match(last.line.id, project_path))
           => last.res = "count"
    /\ (script = "claude" /\ Truthy(project_path) /\ last.src = "session"
            /\ last.line.k = "object" /\ last.line.id # None
            /\ last.line.type = "user" /\ last.line.content = "str"
            /\ last.line.tsk = "num"
            /\ paths_match(last.line.id, project_path))
           => last.res \in {"count", "dup"}
    /\ (script = "codex" /\ Truthy(project_path) /\ ~Truthy(name_filter)
            /\ CodexTested /\ paths_match(cwd, project_path))
           => last.res # "break"
    /\ (script = "cursor" /\ Truthy(project_path) /\ last.src = "row"
            /\ last.line.k = "row" /\ last.line.ws # <<>>
            /\ paths_match(last.line.ws, project_path))
           => last.res = "match"

\* C6: with neither --project-path nor --filter the script prints the
\* structured error, scans no store and exits with a non-zero status.
C6_NoArgumentsFails ==
    (~Truthy(project_path) /\ ~Truthy(name_filter) /\ pc # "start")
        => /\ pc = "done"
           /\ out.kind = "error"
           /\ last = NoLast
           /\ exit_status # 0

\* C7: every run that prints a report was given exactly one of
\* --project-path and --filter.
C7_ExactlyOneSelector ==
    Reported => (Truthy(project_path) <=> ~Truthy(name_filter))

\* The malformed records of C8: not JSON, JSON that is not an object, a
\* timestamp that is not a number, a content list whose first element is
\* not an object.
Malformed(line) ==
    \/ line.k \in {"notjson", "nonobject"}
    \/ line.k = "object" /\ line.tsk = "bad"
    \/ line.k = "object" /\ line.content = "list_bad"

\* C8: a malformed record never aborts a scan: reading one raises nothing,
\* the record is skipped and the run goes on.
C8_MalformedRecordSkipped ==
    Malformed(last.line) => (last.res # "raise" /\ pc # "crashed")

\* C9: a missing or unreadable store or log file never fails the run: no
\* run ends on the exception of a directory or file that cannot be opened.
C9_MissingStoreTolerated ==
    out.error \notin {"FileNotFoundError", "PermissionError"}

\* C10: with a concrete project path the alternate-path search runs exactly
\* when the scan yields zero matching records, never in filter mode and
\* never when the total is positive, and its result is attached exactly
\* when it is not empty.
C10_AlternateSearchTrigger ==
    Reported =>
        /\ searched <=> (Truthy(project_path) /\ out.total = 0)
        /\ out.has_alt <=> (searched /\ alternates # {})

\* C11: soundness of the alternate-path suggestions: in every report each
\* entry of alternate_paths has the basename of the requested path, denotes
\* another path than the requested one once both are normalized, and the
\* list is strictly ascending with no two entries denoting the same path.
C11_AlternatePathsSound ==
    Reported =>
        LET alts == out.alternate_paths
        IN  /\ \A i \in 1..Len(alts) :
                  /\ Basename(NormPath(alts[i])) = Basename(NormPath(project_path))
                  /\ ~paths_match(alts[i], project_path)
            /\ \A i \in 1..(Len(alts) - 1) :
                  /\ StrLess(alts[i], alts[i + 1])
                  /\ ~paths_match(alts[i], alts[i + 1])

\* A stored project identifier the folder-move detection has to suggest:
\* the basename of the requested path at another path.
Suggestible(p) ==
    /\ Truthy(p)
    /\ Basename(NormPath(p)) = Basename(NormPath(project_path))
    /\ ~paths_match(p, project_path)

\* p is an entry of the report's alternate_paths.
Suggested(p) == \E i \in 1..Len(out.alternate_paths) : out.alternate_paths[i] = p

\* The project identifiers the run has met in the store and still holds:
\* the "project" or "cwd" of the line read last, the cwd of the first
\* session_meta of every rollout file and of the rollout file read last,
\* the workspace mappings and the workspaceUri of the composerData rows.
KnownPaths ==
    (IF last.line.k = "object" THEN {last.line.id} ELSE {})
    \cup {first_lines[j].id : j \in 1..Len(first_lines)}
    \cup {cwd}
    \cup Range(ws_mappings)
    \cup composer_paths

\* C12: completeness of the alternate-path discovery: in a report for a
\* concrete path with zero matches, every project path met in the store
\* that has the requested basename at another path is suggested, and no
\* path with another basename is.
C12_AlternatePathsComplete ==
    (Reported /\ Truthy(project_path) /\ out.total = 0) =>
        /\ \A p \in KnownPaths : Suggestible(p) => Suggested(p)
        /\ \A i \in 1..Len(out.alternate_paths) :
              Basename(NormPath(out.alternate_paths[i]))
                  = Basename(NormPath(project_path))

\* git_sessions.py has printed its report.
GitReported == script = "git" /\ pc = "done" /\ out.kind = "git_report"

\* The sessions one after the other.
RECURSIVE Flatten(_)
Flatten(ss) == IF ss = <<>> THEN <<>> ELSE Head(ss) \o Flatten(Tail(ss))

\* The positions in the commit sequence after which a session ends and
\* another begins.
Boundaries ==
    {Len(Flatten(SubSeq(sessions, 1, k))) : k \in 1..(Len(sessions) - 1)}

\* The instants of a commit sequence.
Instants(cs) == [i \in 1..Len(cs) |-> cs[i].ts]

\* C13: session clustering: the sessions are the sorted commits cut exactly
\* between the consecutive commits that are more than 1.5 hours apart (the
\* gap is taken from the commit just before, and a gap of exactly 1.5 hours
\* does not cut); commits at T, T+1h, T+3h, T+3h10m give the two sessions
\* {T, T+1h} and {T+3h, T+3h10m}.
C13_SessionClustering ==
    GitReported =>
        /\ Flatten(sessions) = commits
        /\ \A i \in 1..(Len(commits) - 1) :
              (i \in Boundaries) <=> (commits[i + 1].ts - commits[i].ts > 90)
        /\ Instants(commits) = <<GitT, GitT + 60, GitT + 180, GitT + 190>>
              => /\ Len(sessions) = 2
                 /\ Instants(sessions[1]) = <<GitT, GitT + 60>>
                 /\ Instants(sessions[2]) = <<GitT + 180, GitT + 190>>

\* C13 witness: the report for commits at T, T+1h, T+3h, T+3h10m.
C13_Witness ==
    /\ GitReported
    /\ Instants(commits) = <<GitT, GitT + 60, GitT + 180, GitT + 190>>

\* C14: session duration: every reported session lasts its raw span plus the
\* 0.5 h overhead, and no less than the 0.5 h minimum; a session of one
\* commit lasts exactly 0.5 h.
C14_SessionDuration ==
    GitReported =>
        \A i \in 1..Len(sessions) :
           LET s == sessions[i]
               span == s[Len(s)].ts - s[1].ts
               h == session_data[i].duration_h
           IN  /\ h = (IF span + 30 >= 30 THEN span + 30 ELSE 30)
               /\ Len(s) = 1 => h = 30
               /\ h >= MIN_SESSION_HOURS
               /\ h >= span + SESSION_BUFFER

\* C14 witness: a report with a session of one commit and a session of
\* several commits at different instants.
C14_Witness ==
    /\ GitReported
    /\ \E i, j \in 1..Len(sessions) :
          /\ Len(sessions[i]) = 1
          /\ Len(sessions[j]) > 1
          /\ sessions[j][Len(sessions[j])].ts > sessions[j][1].ts

\* The durations of the sessions whose first commit falls on the UTC date d.
RECURSIVE HoursOnUtcDate(_, _)
HoursOnUtcDate(d, ss) ==
    IF ss = <<>> THEN 0
    ELSE (IF Head(ss)[1].ts \div DayMin = d THEN session_hours(Head(ss)) ELSE 0)
         + HoursOnUtcDate(d, Tail(ss))

\* C15: daily-hours attribution: every session's whole duration is in the
\* daily_hours bucket of the UTC calendar date of its first commit, whatever
\* offset the commits carry, and in no other bucket.
C15_DailyHoursByUtcDate ==
    GitReported =>
        /\ \A d \in DOMAIN daily_hours :
              daily_hours[d] = HoursOnUtcDate(d, sessions)
        /\ \A i \in 1..Len(sessions) :
              (sessions[i][1].ts \div DayMin) \in DOMAIN daily_hours

\* What stdout and the exit status carry when no commit was found.
NoEventsSignal ==
    out.kind = "error" /\ out.error = "No commits found" /\ exit_status = 0

\* C16: empty-input distinction: an empty commit sequence gives the "no
\* events" signal and never a session report, and the signal tells "nothing
\* happened in the scanned range" from "no data available": it is not what
\* a failed git log ends in.
C16_EmptyInputDistinguished ==
    (script = "git" /\ pc = "done") =>
        /\ commits = <<>> => out.kind = "error"
        /\ NoEventsSignal => git_ok

\* The date of an epoch given in seconds.
SecondsDate(sec) == sec \div 86400

\* C17: the magnitude heuristic is applied to every bare numeric timestamp:
\* above 1_000_000_000_000 it is epoch-milliseconds, otherwise
\* epoch-seconds.  So a user bubble whose only timestamp is a number is
\* counted whatever its magnitude, and a counted history timestamp at or
\* below the threshold (every history timestamp of this model is) is
\* booked on the date of that number of seconds.
C17_TimestampMagnitude ==
    /\ (script = "cursor" /\ last.src = "bubble" /\ last.line.k = "bubble"
            /\ last.line.type = 1 /\ last.line.created.has # "num"
            /\ last.line.timing.has # "num" /\ last.line.stamp.has = "num")
           => last.res = "count"
    /\ (script = "claude" /\ last.src = "history" /\ last.res = "count")
           => SecondsDate(last.line.ts) \in DOMAIN daily_history

\* The number of entries of a timestamp list that fall on the UTC date d.
OnUtcDate(stamps, d) == Cardinality({i \in 1..Len(stamps) : UtcDate(stamps[i]) = d})

\* C18: every counted event is booked on the UTC calendar date of its epoch,
\* whatever offset its timestamp string carried: a counted Claude record
\* (history or session file) has a bucket on its UTC date, and a Codex
\* report counts on every date the prompts whose epoch has that UTC date.
C18_DailyKeysAreUtcDates ==
    /\ (script = "claude" /\ last.src = "history" /\ last.res = "count")
           => UtcDate(last.line.ts) \in DOMAIN daily_history
    /\ (script = "claude" /\ last.src = "session" /\ last.res = "count")
           => UtcDate(last.line.ts) \in DOMAIN daily_sessions
    /\ (script = "codex" /\ Reported)
           => \A d \in (DOMAIN out.daily)
                          \cup {UtcDate(out.timestamps[i]) :
                                   i \in 1..Len(out.timestamps)} :
                 Get(out.daily, d) = OnUtcDate(out.timestamps, d)

\* C19: report consistency of the merged output of Claude and Cursor: the
\* total is the sum of the daily counts and the sum of the two per-source
\* subtotals, and every daily count is a positive integer.
C19_ReportConsistency ==
    (Reported /\ script \in {"claude", "cursor"}) =>
        /\ out.total = SumValues(out.daily)
        /\ out.total = out.history + out.session_files
        /\ \A d \in DOMAIN out.daily : out.daily[d] \in Nat \ {0}

\* C19 witness: a Cursor report whose two sources both counted an event of
\* the same date.
C19_Witness ==
    /\ Reported
    /\ script = "cursor"
    /\ out.history >= 1
    /\ out.session_files >= 1
    /\ \E d \in DOMAIN out.daily : out.daily[d] >= 2

\* C20: the primary stream is counted unconditionally: with a concrete
\* project path, every history.jsonl record of that project that carries a
\* timestamp is in the daily histogram and its rounded epoch in the seen
\* set, and the report's history subtotal counts it, also when the run
\* found no project directory.
C20_PrimaryCountedUnconditionally ==
    (script = "claude" /\ Truthy(project_path)
        /\ last.src \in {"history", "alt_history"}
        /\ last.line.k = "object" /\ last.line.id = project_path
        /\ last.line.tsk = "num")
       => /\ RoundSec(last.line.ts) \in seen_ts
          /\ UtcDate(last.line.ts) \in DOMAIN daily_history
          /\ Reported => out.history >= 1

\* A fallback record of the requested project with a parseable timestamp
\* that is a type='user' record flagged real by is_real_prompt.
RealUserRecord(line) ==
    /\ Candidate(line)
    /\ is_real_prompt(line.content) = "real"

\* C21: fallback inclusion rule of the Claude session files: a step that
\* examines a record adds one to the fallback histogram if and only if the
\* record is a real type='user' record whose rounded epoch is not in the
\* seen set at that moment, and then puts the rounded epoch in the seen set;
\* any other record leaves the histogram and the seen set as they were.
C21_FallbackInclusion ==
    [][(script = "claude" /\ pc = "sessions" /\ nsess' = nsess + 1) =>
          LET line == last'.line
              included == /\ RealUserRecord(line)
                          /\ RoundSec(line.ts) \notin seen_ts
          IN  IF included
              THEN /\ SumValues(daily_sessions') = SumValues(daily_sessions) + 1
                   /\ seen_ts' = seen_ts \cup {RoundSec(line.ts)}
              ELSE /\ daily_sessions' = daily_sessions
                   /\ seen_ts' = seen_ts]_vars

\* C21 witness: a real user record was examined and not counted because an
\* earlier fallback record, not a primary one, had put its rounded epoch in
\* the seen set.
C21_Witness ==
    /\ script = "claude"
    /\ last.src = "session"
    /\ RealUserRecord(last.line)
    /\ last.res = "dup"
    /\ SumValues(daily_sessions) >= 1
    /\ \A t \in hist_ts : RoundSec(t) # RoundSec(last.line.ts)

\* C22: Cursor workspace-storage fallback: an entry is counted only if it is
\* a genuine user message whose rounded epoch was not seen before, neither
\* from global storage nor from an earlier fallback entry; the session-level
\* createdAt and lastUpdatedAt of a composer are not counted as user
\* prompts.
C22_WorkspaceFallback ==
    script = "cursor" =>
        /\ last.src = "composer" => last.res # "count"
        /\ (last.src = "legacy" /\ last.res = "count")
               => last.line.role = "user"
        /\ \A i \in 1..Len(ts_ws) :
              /\ \A j \in 1..Len(ts_global) :
                    RoundSec(ts_ws[i]) # RoundSec(ts_global[j])
              /\ \A j \in 1..Len(ts_ws) :
                    RoundSec(ts_ws[i]) = RoundSec(ts_ws[j]) => i = j

\* C23: with a concrete project path no record of another project is
\* counted: a Codex prompt is taken into session_prompts only while the cwd
\* of the session_meta read last in its file is the requested path (never
\* before a session_meta, never after a session_meta of another cwd), the
\* Codex totals grow only by the prompts so taken, and a Claude record that
\* raises a histogram, from history.jsonl or from a session file, carries
\* the requested path, also when another path encodes to the same project
\* directory name.
C23_OwnershipRespected ==
    [][Truthy(project_path) =>
          /\ (script = "codex" /\ Len(session_prompts') > Len(session_prompts))
                 => /\ cwd = project_path
                    /\ cwd' = project_path
          /\ (script = "codex"
                /\ (daily' # daily \/ timestamps' # timestamps
                       \/ sessions_found' # sessions_found))
                 => /\ session_prompts # <<>>
                    /\ Len(timestamps') <= Len(timestamps) + Len(session_prompts)
                    /\ SumValues(daily') <= SumValues(daily) + Len(session_prompts)
          /\ (script = "claude"
                /\ (daily_sessions' # daily_sessions
                       \/ daily_history' # daily_history))
                 => /\ last'.line.k = "object"
                    /\ last'.line.id = project_path]_vars

\* C23 witness: a real user record of a session file whose cwd is another
\* path with the same encoded directory name was examined and not counted.
C23_Witness ==
    /\ script = "claude"
    /\ Truthy(project_path)
    /\ last.src = "session"
    /\ last.line.k = "object"
    /\ last.line.id # project_path
    /\ path_to_encoded(last.line.id) = path_to_encoded(project_path)
    /\ last.line.type = "user"
    /\ is_real_prompt(last.line.content) = "real"
    /\ last.res = "skip"

\* The run is walking its fallback stream (Claude session files, Cursor
\* workspace storage).
FallbackPhase ==
    \/ script = "claude" /\ pc = "sessions"
    \/ script = "cursor" /\ pc \in {"workspace", "composers", "legacy"}

\* Every rounded epoch of the primary stream is in the seen set.
PrimaryInSeen ==
    /\ script = "claude" => \A t \in hist_ts : RoundSec(t) \in seen_ts
    /\ script = "cursor"
           => \A i \in 1..Len(ts_global) : RoundSec(ts_global[i]) \in seen_ts

\* The step leaves what the walk of the primary stream produced as it is.
PrimaryUntouched ==
    /\ daily_history' = daily_history
    /\ hist_ts' = hist_ts
    /\ nhist' = nhist
    /\ daily_global' = daily_global
    /\ Range(ts_global') = Range(ts_global)
    /\ nrows' = nrows

\* What a step of a Claude or Cursor run must respect: a fallback record is
\* examined, and a fallback histogram raised, only in the fallback phase;
\* from that phase on no primary record is processed; the step that ends
\* the fallback phase with the report examines nothing and merges the two
\* histograms as they stand.
MergeOrderStep ==
    script \in {"claude", "cursor"} =>
        /\ (last' # last /\ last'.src \in {"session", "composer", "legacy"})
               => FallbackPhase
        /\ (daily_sessions' # daily_sessions \/ daily_ws' # daily_ws)
               => FallbackPhase
        /\ (FallbackPhase \/ pc = "done") => PrimaryUntouched
        /\ (FallbackPhase /\ pc' = "done")
               => /\ daily_sessions' = daily_sessions
                  /\ daily_ws' = daily_ws
                  /\ last' = last
                  /\ out'.daily = IF script = "claude"
                                  THEN Merged(daily_history, daily_sessions)
                                  ELSE Merged(daily_global, daily_ws)

\* C24: merge ordering: while the fallback stream is walked the seen set
\* holds every rounded epoch of the primary stream; no fallback record is
\* examined while primary records remain unprocessed, and the final merge
\* happens only after both walks have completed.
C24_MergeOrdering ==
    /\ [](FallbackPhase => PrimaryInSeen)
    /\ [][MergeOrderStep]_vars

\* C24 witness: a Cursor fallback entry was refused because the walk of
\* global storage, finished before, had counted an event of its second.
C24_Witness ==
    /\ script = "cursor"
    /\ pc = "legacy"
    /\ last.src = "legacy"
    /\ last.line.role = "user"
    /\ last.line.stamp.has = "num"
    /\ AboveThreshold(last.line.stamp.v)
    /\ last.res = "skip"
    /\ \E i \in 1..Len(ts_global) :
          RoundSec(ts_global[i]) = RoundSec(last.line.stamp.v)
    /\ ts_ws = <<>>

\* The rounded epochs of the primary records counted.
PrimaryEpochs == {RoundSec(t) : t \in hist_ts}

\* The rounded epochs of the qualifying fallback records examined that are
\* not rounded epochs of a primary record: a qualifying record examined is
\* in the seen set (FallbackExaminedSeen), and the seen set holds nothing
\* but these and the primary epochs.
FallbackOnlyEpochs == seen_ts \ PrimaryEpochs

\* A qualifying fallback record that was examined has its rounded epoch in
\* the seen set.
FallbackExaminedSeen ==
    (script = "claude" /\ last.src = "session" /\ RealUserRecord(last.line))
        => RoundSec(last.line.ts) \in seen_ts

\* A step that counts a primary record raises the primary histogram by one,
\* whether or not its rounded second was seen before.
PrimaryCountStep ==
    (script = "claude" /\ pc = "history" /\ nhist' = nhist + 1
        /\ last'.res = "count")
       => SumValues(daily_history') = SumValues(daily_history) + 1

\* C25: the 'session_files' subtotal of a Claude report is the number of
\* distinct rounded epochs among the qualifying fallback records that are
\* not rounded epochs of a primary record (two real fallback prompts in one
\* rounded second count once), whereas every primary record counts, two in
\* the same second twice.
C25_SessionFilesSubtotal ==
    /\ [](script = "claude" =>
            /\ SumValues(daily_sessions) = Cardinality(FallbackOnlyEpochs)
            /\ FallbackExaminedSeen
            /\ Reported => out.session_files = Cardinality(FallbackOnlyEpochs))
    /\ [][PrimaryCountStep]_vars

\* C25 witness: a Claude report in which two primary records of one rounded
\* second count twice and two real fallback prompts of another rounded
\* second count once.
C25_Witness ==
    /\ script = "claude"
    /\ Reported
    /\ out.history = 2
    /\ Cardinality(PrimaryEpochs) = 1
    /\ nsess = 2
    /\ last.src = "session"
    /\ last.res = "dup"
    /\ out.session_files = 1
    /\ RoundSec(last.line.ts) \notin PrimaryEpochs

LongGaps ==
    {i \in 1..(Len(commits) - 1) : commits[i + 1].ts - commits[i].ts > 90}

\* C27: detect_sessions partitions its input: while the loop runs, the
\* closed sessions followed by the open one are the commits handled so far
\* and none of them is empty; in the report the sessions concatenated in
\* order are the sorted commit sequence, no session is empty, there is one
\* session more than there are consecutive gaps above 1.5 h, and every later
\* session starts more than 1.5 h after the last commit of the one before.
C27_SessionsPartition ==
    /\ (script = "git" /\ pc = "detect")
           => /\ Flatten(sessions) \o current = SubSeq(commits, 1, ci - 1)
              /\ current # <<>>
              /\ \A k \in 1..Len(sessions) : sessions[k] # <<>>
    /\ GitReported
           => /\ commits # <<>>
              /\ Flatten(sessions) = commits
              /\ \A k \in 1..Len(sessions) : sessions[k] # <<>>
              /\ Len(sessions) = 1 + Cardinality(LongGaps)
              /\ \A k \in 2..Len(sessions) :
                    sessions[k][1].ts
                        - sessions[k - 1][Len(sessions[k - 1])].ts > 90

\* C27 witness: a report of two sessions, one commit and then three.
C27_Witness ==
    /\ GitReported
    /\ Len(sessions) = 2
    /\ Len(sessions[1]) = 1
    /\ Len(sessions[2]) = 3

\* The sum of a field of the session entries.
RECURSIVE SumDurations(_)
SumDurations(entries) ==
    IF entries = <<>> THEN 0
    ELSE Head(entries).duration_h + SumDurations(Tail(entries))
RECURSIVE SumCommits(_)
SumCommits(entries) ==
    IF entries = <<>> THEN 0
    ELSE Head(entries).commits + SumCommits(Tail(entries))

\* C28: in every git_sessions report, before rounding, total_hours is the
\* sum of the session durations and the sum of the daily_hours values;
\* total_sessions (the number of sessions) is the number of session
\* entries; total_commits (the number of commits) is the sum of the
\* per-session commit counts; total_hours is at least 0.5 h for every
\* session.
C28_GitReportSums ==
    GitReported =>
        /\ total_hours = SumDurations(session_data)
        /\ total_hours = SumValues(daily_hours)
        /\ Len(sessions) = Len(session_data)
        /\ Len(commits) = SumCommits(session_data)
        /\ total_hours >= MIN_SESSION_HOURS * Len(sessions)

\* C28 witness: a report with two sessions booked on the same date.
C28_Witness ==
    /\ GitReported
    /\ Len(session_data) = 2
    /\ session_data[1].date = session_data[2].date
    /\ Len(commits) = 4

====
